---- MODULE Spec2Model ----
(***************************************************************************)
(* Model of CMSHospitalDataPipeline (src/main_script.py): the incremental  *)
(* sync run (load state, fetch catalog, filter, diff, parallel download,   *)
(* parallel transform, state update, save), the ThreadPoolExecutor.map     *)
(* fan-out it uses for both phases, and the column-name normaliser.        *)
(*                                                                         *)
(* Text is modelled as a sequence of one-character strings, so that        *)
(* lower(), substring tests, replace() and the CSV conversions are         *)
(* computed, not assumed.                                                  *)
(***************************************************************************)
EXTENDS Integers, Sequences, FiniteSets, TLC

(***************************************************************************)
(* Text helpers (Python str operations used by the source)                 *)
(***************************************************************************)
UpperChars == <<"A","B","C","D","E","F","G","H","I","J","K","L","M",
                "N","O","P","Q","R","S","T","U","V","W","X","Y","Z">>

LowerChars == <<"a","b","c","d","e","f","g","h","i","j","k","l","m",
                "n","o","p","q","r","s","t","u","v","w","x","y","z">>

\* one character of str.lower()
LowerChar(c) ==
    IF \E i \in 1..Len(UpperChars) : UpperChars[i] = c
    THEN LowerChars[CHOOSE i \in 1..Len(UpperChars) : UpperChars[i] = c]
    ELSE c

\* str.lower()
Lower(s) == [i \in 1..Len(s) |-> LowerChar(s[i])]

\* the Python test  sub in s
Contains(s, sub) ==
    \E i \in 0..(Len(s) - Len(sub)) : SubSeq(s, i + 1, i + Len(sub)) = sub

\* s.replace(old, new) for a one-character old and a new of length 0 or 1
RECURSIVE ReplaceChar(_, _, _)
ReplaceChar(s, old, new) ==
    IF s = <<>> THEN <<>>
    ELSE (IF Head(s) = old THEN new ELSE <<Head(s)>>)
         \o ReplaceChar(Tail(s), old, new)

\* s.replace("__", "_"): non-overlapping occurrences, left to right
RECURSIVE ReplaceDouble(_)
ReplaceDouble(s) ==
    IF Len(s) < 2 THEN s
    ELSE IF s[1] = "_" /\ s[2] = "_"
         THEN <<"_">> \o ReplaceDouble(SubSeq(s, 3, Len(s)))
         ELSE <<s[1]>> \o ReplaceDouble(Tail(s))

\* an if in place of the while: one pass of replace
CollapseOnce(s) == ReplaceDouble(s)

\* while "__" in clean_name: clean_name = clean_name.replace("__", "_")
RECURSIVE CollapseLoop(_)
CollapseLoop(s) ==
    IF Contains(s, <<"_", "_">>) THEN CollapseLoop(ReplaceDouble(s)) ELSE s

\* the two strip tests at the end of step10_clean_column_name
StripEnds(s) ==
    LET a == IF s # <<>> /\ s[1] = "_" THEN Tail(s) ELSE s
    IN  IF a # <<>> /\ a[Len(a)] = "_" THEN SubSeq(a, 1, Len(a) - 1) ELSE a

\* the three characters step10 deletes; the double-quote and the backtick
\* cannot be written inside a TLA+ string literal, so each is a one-character
\* token of its own
Apostrophe == "'"

DoubleQuote == "DQ"

Backtick == "BQ"

\* the separator of cells and the two line-end characters of a CSV file; the
\* line-end characters are one-character tokens like the two quotes above
Comma == ","

CR == "CR"

LF == "LF"

\* step10 without the line that replaces the ampersand
step10_keeps_ampersand(column_name) ==
    LET c0 == Lower(column_name)
        c1 == ReplaceChar(c0, Apostrophe, <<>>)
        c2 == ReplaceChar(c1, DoubleQuote, <<>>)
        c3 == ReplaceChar(c2, Backtick, <<>>)
        c4 == ReplaceChar(c3, "(", <<"_">>)
        c5 == ReplaceChar(c4, ")", <<"_">>)
        c6 == ReplaceChar(c5, "%", <<"_">>)
        c8 == ReplaceChar(c6, "-", <<"_">>)
        c9 == ReplaceChar(c8, " ", <<"_">>)
    IN  StripEnds(CollapseLoop(c9))

\* step10 with the two strip tests ahead of the collapse loop
step10_strips_first(column_name) ==
    LET c0 == Lower(column_name)
        c1 == ReplaceChar(c0, Apostrophe, <<>>)
        c2 == ReplaceChar(c1, DoubleQuote, <<>>)
        c3 == ReplaceChar(c2, Backtick, <<>>)
        c4 == ReplaceChar(c3, "(", <<"_">>)
        c5 == ReplaceChar(c4, ")", <<"_">>)
        c6 == ReplaceChar(c5, "%", <<"_">>)
        c7 == ReplaceChar(c6, "&", <<"_">>)
        c8 == ReplaceChar(c7, "-", <<"_">>)
        c9 == ReplaceChar(c8, " ", <<"_">>)
    IN  CollapseLoop(StripEnds(c9))

step10_clean_column_name(column_name) ==
    LET c0 == Lower(column_name)
        c1 == ReplaceChar(c0, Apostrophe, <<>>)
        c2 == ReplaceChar(c1, DoubleQuote, <<>>)
        c3 == ReplaceChar(c2, Backtick, <<>>)
        c4 == ReplaceChar(c3, "(", <<"_">>)
        c5 == ReplaceChar(c4, ")", <<"_">>)
        c6 == ReplaceChar(c5, "%", <<"_">>)
        c7 == ReplaceChar(c6, "&", <<"_">>)
        c8 == ReplaceChar(c7, "-", <<"_">>)
        c9 == ReplaceChar(c8, " ", <<"_">>)
    IN  StripEnds(CollapseLoop(c9))

(***************************************************************************)
(* Configuration (step1_load_constants)                                    *)
(***************************************************************************)
MAX_WORKERS == 5

THEME_FILTER == <<"h","o","s","p","i","t","a","l","s">>

HospitalLiteral == <<"h","o","s","p","i","t","a","l">>

(***************************************************************************)
(* Dataset descriptors: Python dicts, modelled as functions whose DOMAIN   *)
(* is the set of keys present.                                             *)
(***************************************************************************)
\* value of a missing 'modified' key (Python None, JSON null)
NoneMarker == "<None>"

\* dict.get(key, default)
Get(d, key, default) == IF key \in DOMAIN d THEN d[key] ELSE default

\* the truth value of dataset.get("distribution")
HasDistribution(dataset) ==
    "distribution" \in DOMAIN dataset /\ dataset["distribution"] # <<>>

\* is_hospital_related with 'hospital' also tested against theme and keyword
is_hospital_related_literal_in_lists(dataset) ==
    LET theme_filter == Lower(THEME_FILTER)
        title        == Lower(Get(dataset, "title", <<>>))
        description  == Lower(Get(dataset, "description", <<>>))
        theme        == Get(dataset, "theme", <<>>)
        keywords     == Get(dataset, "keyword", <<>>)
    IN  \/ Contains(title, HospitalLiteral)
        \/ Contains(description, HospitalLiteral)
        \/ \E i \in 1..Len(theme) : Contains(Lower(theme[i]), HospitalLiteral)
        \/ \E i \in 1..Len(keywords) : Contains(Lower(keywords[i]), HospitalLiteral)

\* the boolean is_hospital_related of step6_filter_hospital_datasets
is_hospital_related(dataset) ==
    LET theme_filter == Lower(THEME_FILTER)
        title        == Lower(Get(dataset, "title", <<>>))
        description  == Lower(Get(dataset, "description", <<>>))
        theme        == Get(dataset, "theme", <<>>)
        keywords     == Get(dataset, "keyword", <<>>)
    IN  \/ Contains(title, theme_filter)
        \/ Contains(description, theme_filter)
        \/ \E i \in 1..Len(theme) : Contains(Lower(theme[i]), theme_filter)
        \/ \E i \in 1..Len(keywords) : Contains(Lower(keywords[i]), theme_filter)
        \/ Contains(title, HospitalLiteral)
        \/ Contains(description, HospitalLiteral)

\* step6 that appends every dataset
step6_no_filter(all) == all

\* the for loop of step6: append in input order
RECURSIVE step6_filter_hospital_datasets(_)
step6_filter_hospital_datasets(all) ==
    IF all = <<>> THEN <<>>
    ELSE (IF is_hospital_related(Head(all)) THEN <<Head(all)>> ELSE <<>>)
         \o step6_filter_hospital_datasets(Tail(all))

(***************************************************************************)
(* metadata["files"] is a Python dict: an insertion-ordered sequence of    *)
(* <<identifier, marker>> pairs with distinct identifiers.                 *)
(***************************************************************************)
HasKey(files, k) == \E i \in 1..Len(files) : files[i][1] = k

Lookup(files, k) == files[CHOOSE i \in 1..Len(files) : files[i][1] = k][2]

\* an assignment that rebinds the whole dict to the one new pair
SetKey_replaces_all(files, k, v) == << <<k, v>> >>

\* files[k] = v : overwrite in place, or append a new key
SetKey(files, k, v) ==
    IF HasKey(files, k)
    THEN [i \in 1..Len(files) |-> IF files[i][1] = k THEN <<k, v>> ELSE files[i]]
    ELSE Append(files, <<k, v>>)

\* the if condition of step7 without the marker comparison
NeedsDownload_absent_only(dataset, metadata) ==
    ~HasKey(metadata.files, dataset["identifier"])

\* the if condition of step7_find_new_or_updated_files
NeedsDownload(dataset, metadata) ==
    LET file_id       == dataset["identifier"]
        last_modified == Get(dataset, "modified", NoneMarker)
    IN  \/ ~HasKey(metadata.files, file_id)
        \/ Lookup(metadata.files, file_id) # last_modified

\* step7 with one append for each of the two conditions: a dataset that
\* is new is appended, and appended again by the marker comparison
RECURSIVE step7_appends_per_condition(_, _)
step7_appends_per_condition(datasets, metadata) ==
    IF datasets = <<>> THEN <<>>
    ELSE LET d == Head(datasets)
         IN  (IF ~HasKey(metadata.files, d["identifier"]) THEN <<d, d>>
              ELSE IF NeedsDownload(d, metadata) THEN <<d>> ELSE <<>>)
             \o step7_appends_per_condition(Tail(datasets), metadata)

RECURSIVE step7_find_new_or_updated_files(_, _)
step7_find_new_or_updated_files(datasets, metadata) ==
    IF datasets = <<>> THEN <<>>
    ELSE (IF NeedsDownload(Head(datasets), metadata) THEN <<Head(datasets)>> ELSE <<>>)
         \o step7_find_new_or_updated_files(Tail(datasets), metadata)

\* step12 with the return inside the loop: only the first dataset is recorded
step12_first_only(metadata, processed_datasets) ==
    IF processed_datasets = <<>> THEN metadata
    ELSE LET d == Head(processed_datasets)
         IN  [metadata EXCEPT !.files =
                 SetKey(@, d["identifier"], Get(d, "modified", NoneMarker))]

\* step12_update_metadata: the for loop over processed_datasets
RECURSIVE step12_update_metadata(_, _)
step12_update_metadata(metadata, processed_datasets) ==
    IF processed_datasets = <<>> THEN metadata
    ELSE LET d == Head(processed_datasets)
         IN  step12_update_metadata(
                 [metadata EXCEPT !.files =
                     SetKey(@, d["identifier"], Get(d, "modified", NoneMarker))],
                 Tail(processed_datasets))

(***************************************************************************)
(* The environment: the remote catalog and the files it serves.            *)
(* step5 takes the JSON array as it comes and no step compares the         *)
(* identifiers of two descriptors, so an array may name an identifier      *)
(* twice; the keys other than 'identifier' may be missing.                 *)
(***************************************************************************)
MaxCatalog == 2

MaxBatch == 6

MaxTime == 2

Markers == {"m1", "m2"}

CatalogIds == {"a", "b", "c", "d"}

BatchIds == <<"p1", "p2", "p3", "p4", "p5", "p6", "p7", "p8">>

\* a: relevant through theme only (mixed case)
\* b: relevant through the literal 'hospital' in the title only
\* c: not relevant (the literal occurs in a keyword only)
\* d: relevant through the description, has no 'distribution' key
\* p1.., e: relevant through the title
Descriptor(id, marker) ==
    CASE id = "a" ->
           [identifier |-> id, modified |-> marker,
            title |-> <<"I","n","f","o">>, description |-> <<>>,
            theme |-> << <<"H","o","s","p","i","t","a","l","s">> >>, keyword |-> <<>>,
            distribution |-> << [downloadURL |-> id] >>]
      [] id = "b" ->
           [identifier |-> id, modified |-> marker,
            title |-> <<"H","o","s","p","i","t","a","l"," ","A">>, description |-> <<>>,
            theme |-> << <<"C","a","r","e">> >>, keyword |-> <<>>,
            distribution |-> << [downloadURL |-> id] >>]
      [] id = "c" ->
           [identifier |-> id, modified |-> marker,
            title |-> <<"H","o","m","e","s">>, description |-> <<>>,
            theme |-> << <<"C","a","r","e">> >>, keyword |-> << <<"h","o","s","p","i","t","a","l">> >>,
            distribution |-> << [downloadURL |-> id] >>]
      [] id = "d" ->
           [identifier |-> id, modified |-> marker,
            description |-> <<"U","S"," ","h","o","s","p","i","t","a","l","s">>]
      [] OTHER ->
           [identifier |-> id, modified |-> marker,
            title |-> <<"H","o","s","p","i","t","a","l"," ","A">>, description |-> <<>>,
            theme |-> <<>>, keyword |-> <<>>,
            distribution |-> << [downloadURL |-> id] >>]

Range(seq) == {seq[i] : i \in 1..Len(seq)}

IdsOf(datasets) == {datasets[i]["identifier"] : i \in 1..Len(datasets)}

DistinctIds(datasets) ==
    \A i, j \in 1..Len(datasets) :
        datasets[i]["identifier"] = datasets[j]["identifier"] => i = j

\* every array of at most MaxCatalog descriptors the endpoint may serve
\* first, arrays that repeat an identifier included: a and b published with
\* either marker, c and d with the first
Catalogs ==
    LET Ds == {Descriptor(id, m) : id \in {"a", "b"}, m \in Markers}
              \cup {Descriptor(id, "m1") : id \in {"c", "d"}}
    IN  UNION {[1..n -> Ds] : n \in 0..MaxCatalog}

\* a batch of MaxBatch new relevant descriptors, and the empty catalog
BatchCatalogs ==
    {[i \in 1..n |-> Descriptor(BatchIds[i], "m1")] : n \in {0, MaxBatch}}

\* the descriptor e alone: its transfer may end after any number of
\* characters
ShortCatalog == <<Descriptor("e", "m1")>>

\* a table is a sequence of rows, a row a sequence of cells (csv.reader)
SampleTable ==
    << << <<"Z","i","p"," ","C","o","d","e">>, <<"R","a","t","e"," ","(","%",")">> >>,
       << <<"1">>, <<"A"," ","b">> >> >>

\* a table with no row at all
EmptyTable == <<>>

(***************************************************************************)
(* Files hold text: a sequence of characters.  csv.writer and csv.reader   *)
(* (excel dialect, files opened with newline='') convert between rows and  *)
(* text.                                                                   *)
(***************************************************************************)
\* csv.writer quotes a cell that holds the separator, the quote or a
\* line-end character
csv_quoted(cell) ==
    \E k \in 1..Len(cell) : cell[k] \in {Comma, DoubleQuote, CR, LF}

\* one cell as csv.writer writes it: inside quotes every quote is doubled
csv_cell(cell) ==
    IF csv_quoted(cell)
    THEN <<DoubleQuote>>
         \o ReplaceChar(cell, DoubleQuote, <<DoubleQuote, DoubleQuote>>)
         \o <<DoubleQuote>>
    ELSE cell

RECURSIVE csv_join(_)
csv_join(row) ==
    IF row = <<>> THEN <<>>
    ELSE IF Len(row) = 1 THEN csv_cell(row[1])
    ELSE csv_cell(Head(row)) \o <<Comma>> \o csv_join(Tail(row))

\* csv_writer.writerow(row): a row of one empty cell is written as a pair of
\* quotes; the line ends with CR LF
csv_writerow(row) ==
    (IF row = << <<>> >> THEN <<DoubleQuote, DoubleQuote>> ELSE csv_join(row))
    \o <<CR, LF>>

\* csv_writer.writerows(rows)
RECURSIVE csv_writerows(_)
csv_writerows(rows) ==
    IF rows = <<>> THEN <<>>
    ELSE csv_writerow(Head(rows)) \o csv_writerows(Tail(rows))

\* the parser of csv.reader: the cells of the row being read, the cell being
\* read, and the parser state
csv_start == [fields |-> <<>>, field |-> <<>>, st |-> "START_RECORD"]

csv_save_field(p) == [p EXCEPT !.fields = Append(@, p.field), !.field = <<>>]

csv_add_char(p, c) == [p EXCEPT !.field = Append(@, c)]

\* the parser reads the character c
csv_char(p, c) ==
    IF p.st = "START_RECORD" /\ c \in {CR, LF}
    THEN [p EXCEPT !.st = "EAT_CRNL"]
    ELSE IF p.st \in {"START_RECORD", "START_FIELD"}
    THEN IF c \in {CR, LF} THEN [csv_save_field(p) EXCEPT !.st = "EAT_CRNL"]
         ELSE IF c = DoubleQuote THEN [p EXCEPT !.st = "IN_QUOTED_FIELD"]
         ELSE IF c = Comma THEN [csv_save_field(p) EXCEPT !.st = "START_FIELD"]
         ELSE [csv_add_char(p, c) EXCEPT !.st = "IN_FIELD"]
    ELSE IF p.st = "IN_FIELD"
    THEN IF c \in {CR, LF} THEN [csv_save_field(p) EXCEPT !.st = "EAT_CRNL"]
         ELSE IF c = Comma THEN [csv_save_field(p) EXCEPT !.st = "START_FIELD"]
         ELSE csv_add_char(p, c)
    ELSE IF p.st = "IN_QUOTED_FIELD"
    THEN IF c = DoubleQuote THEN [p EXCEPT !.st = "QUOTE_IN_QUOTED_FIELD"]
         ELSE csv_add_char(p, c)
    ELSE IF p.st = "QUOTE_IN_QUOTED_FIELD"
    THEN IF c = DoubleQuote THEN [csv_add_char(p, c) EXCEPT !.st = "IN_QUOTED_FIELD"]
         ELSE IF c = Comma THEN [csv_save_field(p) EXCEPT !.st = "START_FIELD"]
         ELSE IF c \in {CR, LF} THEN [csv_save_field(p) EXCEPT !.st = "EAT_CRNL"]
         ELSE [csv_add_char(p, c) EXCEPT !.st = "IN_FIELD"]
    ELSE p

\* the parser reaches the end of a line of the file: inside quotes the cell
\* goes on in the next line, otherwise the row is complete
csv_eol(p) ==
    IF p.st = "IN_QUOTED_FIELD" THEN p
    ELSE IF p.st \in {"START_FIELD", "IN_FIELD", "QUOTE_IN_QUOTED_FIELD"}
    THEN [csv_save_field(p) EXCEPT !.st = "START_RECORD"]
    ELSE [p EXCEPT !.st = "START_RECORD"]

\* a line of the file ends after character k: LF, CR LF, a CR alone, or the
\* end of the text
csv_line_ends(text, k) ==
    \/ k = Len(text)
    \/ text[k] = LF
    \/ text[k] = CR /\ text[k + 1] # LF

\* the number of characters of the first line of a text that is not empty
csv_line_len(text) ==
    CHOOSE n \in 1..Len(text) :
        csv_line_ends(text, n) /\ \A m \in 1..(n - 1) : ~csv_line_ends(text, m)

\* the parser after the first k characters of the text
RECURSIVE csv_chars(_, _, _)
csv_chars(p, text, k) ==
    IF k = 0 THEN p ELSE csv_char(csv_chars(p, text, k - 1), text[k])

\* next(csv_reader) on the text that is left: lines are read until the row
\* is complete; at the end of the text a cell still inside quotes is kept
RECURSIVE csv_next(_, _)
csv_next(p, text) ==
    IF text = <<>>
    THEN [row |-> csv_save_field(p).fields, rest |-> <<>>]
    ELSE LET n == csv_line_len(text)
             q == csv_eol(csv_chars(p, text, n))
         IN  IF q.st = "START_RECORD"
             THEN [row |-> q.fields, rest |-> SubSeq(text, n + 1, Len(text))]
             ELSE csv_next(q, SubSeq(text, n + 1, Len(text)))

\* list(csv_reader): the rows of the text, none for a text with no character
RECURSIVE csv_reader(_)
csv_reader(text) ==
    IF text = <<>> THEN <<>>
    ELSE LET r == csv_next(csv_start, text)
         IN  <<r.row>> \o csv_reader(r.rest)

\* the file with the rows of SampleTable, as the server sends it
SampleFile == csv_writerows(SampleTable)

\* a file with no character
EmptyFile == <<>>

\* what the download URL of a descriptor may serve: the version m2 of b is an
\* empty file, the batch item p2 may be either, the others have a header
ServedFiles(dataset) ==
    IF dataset["identifier"] = "b" /\ dataset["modified"] = "m2"
    THEN {EmptyFile}
    ELSE IF dataset["identifier"] = "p2"
         THEN {SampleFile, EmptyFile}
         ELSE {SampleFile}

\* the download URLs whose opening or transfer may fail: that of a in the
\* small catalogs, that of p1 in a batch, and that of e
MayFail(dataset) == dataset["identifier"] \in {"a", "p1", "e"}

\* the number of characters after which a failing transfer of the file may
\* end: any number for e, inside the second cell for the others
ShortReads(dataset, served) ==
    IF dataset["identifier"] = "e"
    THEN 0..(Len(served) - 1)
    ELSE {n \in {12} : n < Len(served)}

(***************************************************************************)
(* METADATA_FILE on disk.  json.dump writes the document piece by piece;   *)
(* a piece is <<tag, identifier, marker, time>>.  json.load accepts only a *)
(* complete document.                                                      *)
(***************************************************************************)
NoLastRun == -1

\* json.dump(metadata, file, indent=2)
Serialize(metadata) ==
    << <<"{", "", "", 0>> >>
    \o [i \in 1..Len(metadata.files) |->
            <<"files", metadata.files[i][1], metadata.files[i][2], 0>>]
    \o (IF metadata.last_run = NoLastRun THEN <<>>
        ELSE << <<"last_run", "", "", metadata.last_run>> >>)
    \o << <<"}", "", "", 0>> >>

\* json.load succeeds
IsComplete(content) ==
    /\ Len(content) >= 2
    /\ content[1][1] = "{"
    /\ content[Len(content)][1] = "}"

\* json.load(file)
Parse(content) ==
    LET entries  == SelectSeq(content, LAMBDA p : p[1] = "files")
        lastruns == SelectSeq(content, LAMBDA p : p[1] = "last_run")
    IN  [files    |-> [i \in 1..Len(entries) |-> <<entries[i][2], entries[i][3]>>],
         last_run |-> IF lastruns = <<>> THEN NoLastRun ELSE lastruns[1][4]]

\* step3_load_previous_metadata, when it returns
step3_load_previous_metadata(f) ==
    IF f.exists THEN Parse(f.content) ELSE [files |-> <<>>, last_run |-> NoLastRun]

\* step3_load_previous_metadata raises (json.load on malformed content)
LoadRaises(f) == f.exists /\ ~IsComplete(f.content)

(***************************************************************************)
(* Directories: DOWNLOAD_DIR maps identifier to the text of                *)
(* '{identifier}.csv', CLEANED_DIR to that of '{identifier}_cleaned.csv'.  *)
(***************************************************************************)
WriteFile(dir, name, content) ==
    [k \in (DOMAIN dir) \cup {name} |-> IF k = name THEN content ELSE dir[k]]

EmptyDir == [k \in {} |-> <<>>]

\* step11 that also normalises the cells of the data rows
CleanedTable_cleans_rows(table) ==
    [r \in 1..Len(table) |->
        [i \in 1..Len(table[r]) |-> step10_clean_column_name(table[r][i])]]

\* the rows step11_process_single_file writes
CleanedTable(table) ==
    LET original_headers == Head(table)
        rows             == Tail(table)
        cleaned_headers  == [i \in 1..Len(original_headers) |->
                                step10_clean_column_name(original_headers[i])]
    IN  <<cleaned_headers>> \o rows

\* step11_process_single_file raises: next(csv_reader) finds no row, which
\* is the case exactly when the file holds no character
step11_raises(dir, file_path) == dir[file_path] = <<>>

\* a file after a writer that opened it stored content from its own offset 0:
\* what lies beyond the written characters (stored by another writer since
\* this one opened the file) stays
Overlay(content, existing) ==
    [n \in 1..(IF Len(content) > Len(existing) THEN Len(content) ELSE Len(existing)) |->
        IF n <= Len(content) THEN content[n] ELSE existing[n]]

\* line 144: open(cleaned_path, 'w') creates or truncates the output file
step11_open(cleaned_dir, file_id) == WriteFile(cleaned_dir, file_id, <<>>)

\* lines 130-147: the rows read from the input file, with the header
\* cleaned, are written; they reach the file when it is closed (the tables
\* are shorter than the buffer of the file object)
step11_write(dir, cleaned_dir, file_path, file_id) ==
    WriteFile(cleaned_dir, file_id,
              Overlay(csv_writerows(CleanedTable(csv_reader(dir[file_path]))),
                      cleaned_dir[file_id]))

\* CLEANED_DIR after step11_process_single_file(file_path, file_id) returned
step11_process_single_file(dir, cleaned_dir, file_path, file_id) ==
    step11_write(dir, step11_open(cleaned_dir, file_id), file_path, file_id)

(***************************************************************************)
(* State                                                                   *)
(***************************************************************************)
VARIABLES
    catalog,            \* what API_URL serves
    edited,             \* the catalog was edited since the last fetch
    file,               \* METADATA_FILE: [exists, content]
    downloads,          \* DOWNLOAD_DIR
    cleaned,            \* CLEANED_DIR
    now,                \* the clock read by datetime.now()
    pc,                 \* position of the main thread in run_complete_pipeline
    outcome,            \* how the last run ended
    metadata,           \* local of run_complete_pipeline
    all_datasets,       \* local of run_complete_pipeline
    hospital_datasets,  \* local of run_complete_pipeline
    new_files,          \* local of run_complete_pipeline
    dl,                 \* futures of step9_download_files_parallel
    tr,                 \* futures of step11_process_files_parallel
    results,            \* the list being built from executor.map
    download_results,   \* local of run_complete_pipeline
    processed_results,  \* local of run_complete_pipeline
    run0,               \* file, directories and loaded state at the start of the run
    prev,               \* how the run before this one ended
    same,               \* this run fetched the catalog the run before it fetched
    prev_diff,          \* identifiers of the diff set of the run before this one
    taken,              \* items a pool thread took from the queue and has not marked running
    writing,            \* items whose worker holds its output file open
    returned,           \* items whose worker has returned from fn, future not yet settled
    raised,             \* items whose worker has raised after a short transfer, future not yet settled
    cancel_next,        \* the future the result iterator cancels next (0: not cancelling)
    u_call,             \* the function called on its own: which one, or "none"
    u_arg,              \* its argument
    u_ret               \* what it returned

\* the variables of a function called on its own
unit == <<u_call, u_arg, u_ret>>

\* the position of the pool threads and of the result iterator
pool == <<taken, writing, returned, raised, cancel_next>>

\* the variables of run_complete_pipeline and its environment
pipeline == <<catalog, edited, file, downloads, cleaned, now, pc, outcome,
              metadata, all_datasets, hospital_datasets, new_files, dl, tr,
              results, download_results, processed_results, run0, prev, same,
              prev_diff, pool>>

vars == <<catalog, edited, file, downloads, cleaned, now, pc, outcome, metadata,
          all_datasets, hospital_datasets, new_files, dl, tr, results,
          download_results, processed_results, run0, prev, same, prev_diff, pool, unit>>

NoMetadata == [files |-> <<>>, last_run |-> NoLastRun]

\* METADATA_FILE does not exist
NoFile == [exists |-> FALSE, content |-> <<>>]

\* after __init__ on a machine where the pipeline never ran: the directories
\* exist and are empty, there is no metadata file
Fresh ==
    /\ file = NoFile
    /\ downloads = EmptyDir
    /\ cleaned = EmptyDir

\* the identifiers an earlier run found new, each with the marker m1
PriorIds == <<"a", "b", "e">>

\* METADATA_FILE as that run saved it
PriorFile ==
    [exists  |-> TRUE,
     content |-> Serialize([files    |-> [i \in 1..Len(PriorIds) |->
                                             <<PriorIds[i], "m1">>],
                            last_run |-> 0])]

\* after __init__ on a machine where an earlier run completed: the metadata
\* file it saved and the files it downloaded and cleaned are there
Prior ==
    /\ file = PriorFile
    /\ downloads = [k \in Range(PriorIds) |-> SampleFile]
    /\ cleaned = [k \in Range(PriorIds) |->
                     csv_writerows(CleanedTable(SampleTable))]

InitRest ==
    /\ edited = FALSE
    /\ pc = "idle"
    /\ outcome = "none"
    /\ metadata = NoMetadata
    /\ all_datasets = <<>>
    /\ hospital_datasets = <<>>
    /\ new_files = <<>>
    /\ dl = <<>>
    /\ tr = <<>>
    /\ results = <<>>
    /\ download_results = <<>>
    /\ processed_results = <<>>
    /\ run0 = [file |-> file, downloads |-> downloads, cleaned |-> cleaned,
               loaded |-> NoMetadata]
    /\ prev = "none"
    /\ same = FALSE
    /\ prev_diff = {}
    /\ taken = {}
    /\ writing = {}
    /\ returned = {}
    /\ raised = {}
    /\ cancel_next = 0

\* no function is called on its own
NoCall ==
    /\ u_call = "none"
    /\ u_arg = <<>>
    /\ u_ret = <<>>

\* after __init__.  The first run faces a catalog of distinct identifiers,
\* with MaxTime runs ahead; a catalog of two descriptors with the same
\* identifier, with two runs ahead; a catalog of distinct identifiers after
\* an earlier run, with two runs ahead; the one descriptor whose transfer
\* may end anywhere, with two runs ahead; or that descriptor twice, with one
\* run ahead.
Init ==
    /\ \/ catalog \in Catalogs /\ DistinctIds(catalog) /\ now = 0 /\ Fresh
       \/ catalog \in Catalogs /\ ~DistinctIds(catalog) /\ Len(catalog) = 2
          /\ now = MaxTime - 2 /\ Fresh
       \/ catalog \in Catalogs /\ DistinctIds(catalog) /\ now = MaxTime - 2
          /\ Prior
       \/ catalog = ShortCatalog /\ now = MaxTime - 2 /\ Fresh
       \/ catalog = ShortCatalog \o ShortCatalog /\ now = MaxTime - 1 /\ Fresh
    /\ InitRest
    /\ NoCall

(***************************************************************************)
(* The environment edits the catalog between runs, one edit between two    *)
(* fetches: a descriptor is republished with another marker (later or      *)
(* earlier), withdrawn, or one is added under a new identifier.            *)
(***************************************************************************)
RemoveAt(seq, i) == SubSeq(seq, 1, i - 1) \o SubSeq(seq, i + 1, Len(seq))

CatalogEdits(c) ==
    {[c EXCEPT ![i] = Descriptor(c[i]["identifier"], m)] :
        i \in 1..Len(c), m \in Markers}
    \cup {RemoveAt(c, i) : i \in 1..Len(c)}
    \cup {Append(c, Descriptor(id, m)) :
            id \in {x \in CatalogIds : Len(c) < MaxCatalog /\ x \notin IdsOf(c)},
            m \in Markers}

CatalogChange ==
    /\ pc = "idle"
    /\ outcome # "none"
    /\ now < MaxTime
    /\ ~edited
    /\ \E c \in CatalogEdits(catalog) : c # catalog /\ catalog' = c
    /\ edited' = TRUE
    /\ UNCHANGED <<file, downloads, cleaned, now, pc, outcome, metadata,
                   all_datasets, hospital_datasets, new_files, dl, tr, results,
                   download_results, processed_results, run0, prev, same, prev_diff, pool, unit>>

(***************************************************************************)
(* run_complete_pipeline                                                   *)
(***************************************************************************)
\* a new call of run_complete_pipeline: fresh locals, later clock
BeginRun ==
    /\ pc = "idle"
    /\ now < MaxTime
    /\ now' = now + 1
    /\ prev' = outcome
    /\ same' = FALSE
    /\ prev_diff' = IdsOf(new_files)
    /\ all_datasets' = <<>>
    /\ hospital_datasets' = <<>>
    /\ new_files' = <<>>
    /\ dl' = <<>>
    /\ tr' = <<>>
    /\ results' = <<>>
    /\ download_results' = <<>>
    /\ processed_results' = <<>>
    /\ UNCHANGED <<catalog, edited, file, downloads, cleaned, pool, unit>>

\* line 171: metadata = self.step3_load_previous_metadata()
LoadMetadata ==
    /\ BeginRun
    /\ ~LoadRaises(file)
    /\ outcome' = "running"
    /\ metadata' = step3_load_previous_metadata(file)
    /\ run0' = [file |-> file, downloads |-> downloads, cleaned |-> cleaned,
                loaded |-> metadata']
    /\ pc' = "loaded"

\* a load that removes the unreadable file before raising
LoadFails_removes_file ==
    /\ pc = "idle"
    /\ now < MaxTime
    /\ LoadRaises(file)
    /\ now' = now + 1
    /\ prev' = outcome
    /\ same' = FALSE
    /\ prev_diff' = IdsOf(new_files)
    /\ all_datasets' = <<>>
    /\ hospital_datasets' = <<>>
    /\ new_files' = <<>>
    /\ dl' = <<>>
    /\ tr' = <<>>
    /\ results' = <<>>
    /\ download_results' = <<>>
    /\ processed_results' = <<>>
    /\ metadata' = NoMetadata
    /\ run0' = [file |-> file, downloads |-> downloads, cleaned |-> cleaned,
                loaded |-> NoMetadata]
    /\ file' = [exists |-> FALSE, content |-> <<>>]
    /\ pc' = "idle"
    /\ outcome' = "aborted_load"
    /\ UNCHANGED <<catalog, edited, downloads, cleaned, pool, unit>>

\* line 171 raises: the run ends with the exception
LoadFails ==
    /\ BeginRun
    /\ LoadRaises(file)
    /\ metadata' = NoMetadata
    /\ run0' = [file |-> file, downloads |-> downloads, cleaned |-> cleaned,
                loaded |-> NoMetadata]
    /\ pc' = "idle"
    /\ outcome' = "aborted_load"

\* line 173: all_datasets = self.step5_fetch_all_datasets()
FetchCatalog ==
    /\ pc = "loaded"
    /\ all_datasets' = catalog
    /\ same' = (prev # "none" /\ ~edited)
    /\ edited' = FALSE
    /\ pc' = "fetched"
    /\ UNCHANGED <<catalog, file, downloads, cleaned, now, outcome, metadata,
                   hospital_datasets, new_files, dl, tr, results,
                   download_results, processed_results, run0, prev,
                   prev_diff, pool, unit>>

\* line 173 raises (urlopen or json.loads fails)
FetchFails ==
    /\ pc = "loaded"
    /\ pc' = "idle"
    /\ outcome' = "aborted_fetch"
    /\ UNCHANGED <<catalog, edited, file, downloads, cleaned, now, metadata,
                   all_datasets, hospital_datasets, new_files, dl, tr, results,
                   download_results, processed_results, run0, prev, same, prev_diff, pool, unit>>

\* a diff that first drops from the loaded state the identifiers the
\* catalog no longer names
FilterAndDiff_prunes_stale ==
    /\ pc = "fetched"
    /\ hospital_datasets' = step6_filter_hospital_datasets(all_datasets)
    /\ metadata' = [metadata EXCEPT !.files =
                       SelectSeq(@, LAMBDA p : p[1] \in IdsOf(all_datasets))]
    /\ new_files' = step7_find_new_or_updated_files(hospital_datasets', metadata')
    /\ pc' = "diffed"
    /\ UNCHANGED <<catalog, edited, file, downloads, cleaned, now, outcome,
                   all_datasets, dl, tr, results,
                   download_results, processed_results, run0, prev, same, prev_diff, pool, unit>>

\* lines 176-177: filter, then diff against the loaded state
FilterAndDiff ==
    /\ pc = "fetched"
    /\ hospital_datasets' = step6_filter_hospital_datasets(all_datasets)
    /\ new_files' = step7_find_new_or_updated_files(hospital_datasets', metadata)
    /\ pc' = "diffed"
    /\ UNCHANGED <<catalog, edited, file, downloads, cleaned, now, outcome, metadata,
                   all_datasets, dl, tr, results,
                   download_results, processed_results, run0, prev, same, prev_diff, pool, unit>>

\* the early return preceded by a call of step4_save_metadata
NoNewFiles_saves ==
    /\ pc = "diffed"
    /\ new_files = <<>>
    /\ metadata' = [metadata EXCEPT !.last_run = now]
    /\ file' = [exists |-> TRUE, content |-> Serialize(metadata')]
    /\ pc' = "idle"
    /\ outcome' = "noop"
    /\ UNCHANGED <<catalog, edited, downloads, cleaned, now,
                   all_datasets, hospital_datasets, new_files, dl, tr, results,
                   download_results, processed_results, run0, prev, same, prev_diff, pool, unit>>

\* lines 179-182: nothing to do, return
NoNewFiles ==
    /\ pc = "diffed"
    /\ new_files = <<>>
    /\ pc' = "idle"
    /\ outcome' = "noop"
    /\ UNCHANGED <<catalog, edited, file, downloads, cleaned, now, metadata,
                   all_datasets, hospital_datasets, new_files, dl, tr, results,
                   download_results, processed_results, run0, prev, same, prev_diff, pool, unit>>

(***************************************************************************)
(* ThreadPoolExecutor(max_workers=MAX_WORKERS).map(fn, items) inside a     *)
(* with block, drained by list(...).  A future is PENDING, RUNNING (a pool *)
(* thread is inside fn), DONE, ERROR (fn raised) or CANCELLED.  map        *)
(* submits the items one by one, and the pool threads work on the items    *)
(* submitted so far meanwhile; the first result is awaited when every item *)
(* is submitted.  The work queue is first in, first out.  A pool thread    *)
(* takes a work item from the queue (work_queue.get) and marks its future  *)
(* RUNNING in a later step (set_running_or_notify_cancel); in between the  *)
(* future is still PENDING and can be cancelled, and other threads take    *)
(* and start later items.  A thread that finds its item cancelled drops    *)
(* it; a cancelled item still in the queue is dropped by the thread that   *)
(* meets it.  fn stores its output when it closes the file, and the future *)
(* is settled (set_result, set_exception) in a later step, after fn has    *)
(* returned or raised.                                                     *)
(***************************************************************************)
Running(fut) == {i \in 1..Len(fut) : fut[i] = "RUNNING"}

\* a worker was invoked on the item
Invoked(fut) == {i \in 1..Len(fut) : fut[i] \in {"RUNNING", "DONE", "ERROR"}}

\* a pool that starts a thread for every queued item
PoolUnbounded(fut) == TRUE

\* a pool thread is free to take the next queued item, or submit has started
\* one for it: every thread that is not free holds an item it took or is
\* inside fn, and submit starts a thread while none is free and fewer than
\* max_workers exist
PoolHasIdleWorker(fut) == Cardinality(Running(fut) \cup taken) < MAX_WORKERS

\* work_queue.get() by a free pool thread returns item i: it was submitted,
\* and the items ahead of it have been taken
CanTake(fut, i) ==
    /\ i \in 1..Len(fut)
    /\ fut[i] = "PENDING"
    /\ i \notin taken
    /\ \A j \in 1..(i - 1) : fut[j] # "PENDING" \/ j \in taken
    /\ PoolHasIdleWorker(fut)

\* future.cancel(): only a PENDING future is cancelled
Cancel(fut, j) == IF fut[j] = "PENDING" THEN [fut EXCEPT ![j] = "CANCELLED"] ELSE fut

\* the worker of item i is inside fn and has not opened its output file
AtEntry(i) == i \notin (writing \cup returned \cup raised)

\* the main thread is inside step9_download_files_parallel
DownloadPhase == {"submitting_downloads", "downloading", "download_raised"}

\* the main thread is inside step11_process_files_parallel
ProcessPhase == {"submitting_transforms", "processing", "process_raised"}

\* line 190, inside executor.map of step9_download_files_parallel:
\* executor.submit for the next item of new_files
SubmitDownload ==
    /\ \/ pc = "diffed" /\ new_files # <<>>
       \/ pc = "submitting_downloads"
    /\ dl' = Append(dl, "PENDING")
    /\ pc' = IF Len(dl') = Len(new_files) THEN "downloading"
                                          ELSE "submitting_downloads"
    /\ UNCHANGED <<catalog, edited, file, downloads, cleaned, now, outcome,
                   metadata, all_datasets, hospital_datasets,
                   new_files, tr, results, download_results,
                   processed_results, run0, prev, same, prev_diff,
                   taken, writing, returned, raised, cancel_next, unit>>

\* a pool thread takes the work item of new_files[i] from the queue
DownloadTake(i) ==
    /\ pc \in DownloadPhase
    /\ CanTake(dl, i)
    /\ taken' = taken \cup {i}
    /\ UNCHANGED <<catalog, edited, file, downloads, cleaned, now, pc,
                   outcome, metadata, all_datasets, hospital_datasets,
                   new_files, dl, tr, results, download_results,
                   processed_results, run0, prev, same, prev_diff,
                   writing, returned, raised, cancel_next, unit>>

\* the thread marks the future running and enters
\* step8_download_single_file(new_files[i])
DownloadStart(i) ==
    /\ pc \in DownloadPhase
    /\ i \in taken
    /\ i \in 1..Len(dl)
    /\ dl[i] = "PENDING"
    /\ dl' = [dl EXCEPT ![i] = "RUNNING"]
    /\ taken' = taken \ {i}
    /\ UNCHANGED <<catalog, edited, file, downloads, cleaned, now, pc,
                   outcome, metadata, all_datasets, hospital_datasets,
                   new_files, tr, results, download_results,
                   processed_results, run0, prev, same, prev_diff,
                   writing, returned, raised, cancel_next, unit>>

\* line 95, inside urlretrieve: the URL was opened, open(filename, 'wb')
\* creates or truncates the local file
DownloadOpen(i) ==
    /\ pc \in DownloadPhase
    /\ i \in 1..Len(dl)
    /\ dl[i] = "RUNNING"
    /\ AtEntry(i)
    /\ HasDistribution(new_files[i])
    /\ downloads' = WriteFile(downloads, new_files[i]["identifier"], <<>>)
    /\ writing' = writing \cup {i}
    /\ UNCHANGED <<catalog, edited, file, cleaned, now, pc, outcome, metadata,
                   all_datasets, hospital_datasets, new_files, dl, tr,
                   results, download_results, processed_results, run0,
                   prev, same, prev_diff, taken, returned, raised,
                   cancel_next, unit>>

\* line 95, inside urlretrieve: the transfer is over and the local file is
\* closed, which stores the characters read (the files served are shorter
\* than one block of the transfer and than the buffer of the file object).
\* When fewer characters arrived than the server announced, urlretrieve is
\* about to raise ContentTooShortError, else step8 is about to return.
DownloadClose(i) ==
    /\ pc \in DownloadPhase
    /\ i \in 1..Len(dl)
    /\ dl[i] = "RUNNING"
    /\ i \in writing
    /\ LET dataset == new_files[i]
           file_id == dataset["identifier"]
       IN  \E served \in ServedFiles(dataset) :
              \/ /\ downloads' = WriteFile(downloads, file_id,
                                           Overlay(served, downloads[file_id]))
                 /\ returned' = returned \cup {i}
                 /\ UNCHANGED raised
              \/ /\ MayFail(dataset)
                 /\ \E n \in ShortReads(dataset, served) :
                       downloads' = WriteFile(downloads, file_id,
                           Overlay(SubSeq(served, 1, n), downloads[file_id]))
                 /\ raised' = raised \cup {i}
                 /\ UNCHANGED returned
    /\ writing' = writing \ {i}
    /\ UNCHANGED <<catalog, edited, file, cleaned, now, pc, outcome, metadata,
                   all_datasets, hospital_datasets, new_files, dl, tr,
                   results, download_results, processed_results, run0,
                   prev, same, prev_diff, taken, cancel_next, unit>>

\* the pool thread settles the future: set_exception after step8 raised
\* (ValueError for a missing distribution or a failing urlopen, before any
\* file is touched, or ContentTooShortError), set_result after it returned
DownloadFinish(i) ==
    /\ pc \in DownloadPhase
    /\ i \in 1..Len(dl)
    /\ dl[i] = "RUNNING"
    /\ \/ /\ AtEntry(i)
          /\ ~HasDistribution(new_files[i]) \/ MayFail(new_files[i])
          /\ dl' = [dl EXCEPT ![i] = "ERROR"]
          /\ UNCHANGED <<returned, raised>>
       \/ /\ i \in raised
          /\ dl' = [dl EXCEPT ![i] = "ERROR"]
          /\ raised' = raised \ {i}
          /\ UNCHANGED returned
       \/ /\ i \in returned
          /\ dl' = [dl EXCEPT ![i] = "DONE"]
          /\ returned' = returned \ {i}
          /\ UNCHANGED raised
    /\ UNCHANGED <<catalog, edited, file, downloads, cleaned, now, pc,
                   outcome, metadata, all_datasets, hospital_datasets,
                   new_files, tr, results, download_results,
                   processed_results, run0, prev, same, prev_diff,
                   taken, writing, cancel_next, unit>>

\* the value step8_download_single_file returns: (local_filename, file_id)
DownloadValue(dataset) ==
    [file_path |-> dataset["identifier"], file_id |-> dataset["identifier"]]

\* list(executor.map(...)) takes the next result in input order; when the
\* result is an exception the result iterator starts its finally clause
DownloadCollect ==
    /\ pc = "downloading"
    /\ Len(results) < Len(dl)
    /\ LET k == Len(results) + 1
       IN  \/ /\ dl[k] = "DONE"
              /\ results' = Append(results, DownloadValue(new_files[k]))
              /\ UNCHANGED <<pc, cancel_next>>
           \/ /\ dl[k] = "ERROR"
              /\ cancel_next' = Len(dl)
              /\ pc' = "download_raised"
              /\ UNCHANGED results
    /\ UNCHANGED <<catalog, edited, file, downloads, cleaned, now, outcome,
                   metadata, all_datasets, hospital_datasets,
                   new_files, dl, tr, download_results,
                   processed_results, run0, prev, same, prev_diff,
                   taken, writing, returned, raised, unit>>

\* the finally clause of the result iterator: future.cancel() on the futures
\* it has not yielded, the last one first
DownloadCancel ==
    /\ pc = "download_raised"
    /\ cancel_next > Len(results) + 1
    /\ dl' = Cancel(dl, cancel_next)
    /\ taken' = IF dl[cancel_next] = "PENDING" THEN taken \ {cancel_next} ELSE taken
    /\ cancel_next' = cancel_next - 1
    /\ UNCHANGED <<catalog, edited, file, downloads, cleaned, now, pc,
                   outcome, metadata, all_datasets, hospital_datasets,
                   new_files, tr, results, download_results,
                   processed_results, run0, prev, same, prev_diff,
                   writing, returned, raised, unit>>

\* a download phase that logs the exception and goes on to the state update
DownloadAbort_swallows ==
    /\ pc = "download_raised"
    /\ cancel_next = Len(results) + 1
    /\ Running(dl) = {}
    /\ metadata' = step12_update_metadata(metadata, new_files)
    /\ pc' = "updated"
    /\ cancel_next' = 0
    /\ UNCHANGED <<catalog, edited, file, downloads, cleaned, now, outcome,
                   all_datasets, hospital_datasets, new_files, dl, tr,
                   results, download_results, processed_results, run0,
                   prev, same, prev_diff, taken, writing, returned,
                   raised, unit>>

\* the with block waits for the running workers, then the exception leaves
\* step9_download_files_parallel and run_complete_pipeline
DownloadAbort ==
    /\ pc = "download_raised"
    /\ cancel_next = Len(results) + 1
    /\ Running(dl) = {}
    /\ pc' = "idle"
    /\ outcome' = "aborted_download"
    /\ cancel_next' = 0
    /\ UNCHANGED <<catalog, edited, file, downloads, cleaned, now, metadata,
                   all_datasets, hospital_datasets, new_files, dl, tr,
                   results, download_results, processed_results, run0,
                   prev, same, prev_diff, taken, writing, returned,
                   raised, unit>>

\* a pipeline that hands the download results to the transform pool as soon
\* as the first one is collected
SubmitTransform_early ==
    /\ \/ /\ pc = "downloading"
          /\ results # <<>>
          /\ download_results' = results
          /\ results' = <<>>
          /\ tr' = <<"PENDING">>
       \/ /\ pc = "submitting_transforms"
          /\ tr' = Append(tr, "PENDING")
          /\ UNCHANGED <<download_results, results>>
    /\ pc' = IF Len(tr') = Len(download_results') THEN "processing"
                                                  ELSE "submitting_transforms"
    /\ UNCHANGED <<catalog, edited, file, downloads, cleaned, now, outcome,
                   metadata, all_datasets, hospital_datasets,
                   new_files, dl, processed_results, run0, prev, same,
                   prev_diff, taken, writing, returned, raised,
                   cancel_next, unit>>

\* lines 190-193: step9_download_files_parallel has every result and
\* returns, and executor.map of step11_process_files_parallel calls
\* executor.submit for the first item of download_results; or it calls
\* executor.submit for the next item
SubmitTransform ==
    /\ \/ /\ pc = "downloading"
          /\ Len(results) = Len(dl)
          /\ download_results' = results
          /\ results' = <<>>
          /\ tr' = <<"PENDING">>
       \/ /\ pc = "submitting_transforms"
          /\ tr' = Append(tr, "PENDING")
          /\ UNCHANGED <<download_results, results>>
    /\ pc' = IF Len(tr') = Len(download_results') THEN "processing"
                                                  ELSE "submitting_transforms"
    /\ UNCHANGED <<catalog, edited, file, downloads, cleaned, now, outcome,
                   metadata, all_datasets, hospital_datasets,
                   new_files, dl, processed_results, run0, prev, same,
                   prev_diff, taken, writing, returned, raised,
                   cancel_next, unit>>

\* a pool thread takes the work item of download_results[i] from the queue
ProcessTake(i) ==
    /\ pc \in ProcessPhase
    /\ CanTake(tr, i)
    /\ taken' = taken \cup {i}
    /\ UNCHANGED <<catalog, edited, file, downloads, cleaned, now, pc,
                   outcome, metadata, all_datasets, hospital_datasets,
                   new_files, dl, tr, results, download_results,
                   processed_results, run0, prev, same, prev_diff,
                   writing, returned, raised, cancel_next, unit>>

\* the thread marks the future running and enters
\* process_single(download_results[i])
ProcessStart(i) ==
    /\ pc \in ProcessPhase
    /\ i \in taken
    /\ i \in 1..Len(tr)
    /\ tr[i] = "PENDING"
    /\ tr' = [tr EXCEPT ![i] = "RUNNING"]
    /\ taken' = taken \ {i}
    /\ UNCHANGED <<catalog, edited, file, downloads, cleaned, now, pc,
                   outcome, metadata, all_datasets, hospital_datasets,
                   new_files, dl, results, download_results,
                   processed_results, run0, prev, same, prev_diff,
                   writing, returned, raised, cancel_next, unit>>

\* lines 130-144: the input file was read and had a header row;
\* open(cleaned_path, 'w') creates or truncates the output file
ProcessOpen(i) ==
    /\ pc \in ProcessPhase
    /\ i \in 1..Len(tr)
    /\ tr[i] = "RUNNING"
    /\ AtEntry(i)
    /\ ~step11_raises(downloads, download_results[i].file_path)
    /\ cleaned' = step11_open(cleaned, download_results[i].file_id)
    /\ writing' = writing \cup {i}
    /\ UNCHANGED <<catalog, edited, file, downloads, now, pc, outcome,
                   metadata, all_datasets, hospital_datasets,
                   new_files, dl, tr, results, download_results,
                   processed_results, run0, prev, same, prev_diff,
                   taken, returned, raised, cancel_next, unit>>

\* lines 145-149: the rows are written and the output file is closed, which
\* stores them; step11_process_single_file is about to return
ProcessClose(i) ==
    /\ pc \in ProcessPhase
    /\ i \in 1..Len(tr)
    /\ tr[i] = "RUNNING"
    /\ i \in writing
    /\ cleaned' = step11_write(downloads, cleaned, download_results[i].file_path,
                               download_results[i].file_id)
    /\ writing' = writing \ {i}
    /\ returned' = returned \cup {i}
    /\ UNCHANGED <<catalog, edited, file, downloads, now, pc, outcome,
                   metadata, all_datasets, hospital_datasets,
                   new_files, dl, tr, results, download_results,
                   processed_results, run0, prev, same, prev_diff,
                   taken, raised, cancel_next, unit>>

\* the pool thread settles the future: set_exception after line 132 raised
\* on an input file without rows, set_result after process_single returned
ProcessFinish(i) ==
    /\ pc \in ProcessPhase
    /\ i \in 1..Len(tr)
    /\ tr[i] = "RUNNING"
    /\ \/ /\ AtEntry(i)
          /\ step11_raises(downloads, download_results[i].file_path)
          /\ tr' = [tr EXCEPT ![i] = "ERROR"]
          /\ UNCHANGED returned
       \/ /\ i \in returned
          /\ tr' = [tr EXCEPT ![i] = "DONE"]
          /\ returned' = returned \ {i}
    /\ UNCHANGED <<catalog, edited, file, downloads, cleaned, now, pc,
                   outcome, metadata, all_datasets, hospital_datasets,
                   new_files, dl, results, download_results,
                   processed_results, run0, prev, same, prev_diff,
                   taken, writing, raised, cancel_next, unit>>

\* list(executor.map(...)) takes the next result in input order; when the
\* result is an exception the result iterator starts its finally clause
ProcessCollect ==
    /\ pc = "processing"
    /\ Len(results) < Len(tr)
    /\ LET k == Len(results) + 1
       IN  \/ /\ tr[k] = "DONE"
              /\ results' = Append(results, download_results[k].file_id)
              /\ UNCHANGED <<pc, cancel_next>>
           \/ /\ tr[k] = "ERROR"
              /\ cancel_next' = Len(tr)
              /\ pc' = "process_raised"
              /\ UNCHANGED results
    /\ UNCHANGED <<catalog, edited, file, downloads, cleaned, now, outcome,
                   metadata, all_datasets, hospital_datasets,
                   new_files, dl, tr, download_results,
                   processed_results, run0, prev, same, prev_diff,
                   taken, writing, returned, raised, unit>>

\* the finally clause of the result iterator: future.cancel() on the futures
\* it has not yielded, the last one first
ProcessCancel ==
    /\ pc = "process_raised"
    /\ cancel_next > Len(results) + 1
    /\ tr' = Cancel(tr, cancel_next)
    /\ taken' = IF tr[cancel_next] = "PENDING" THEN taken \ {cancel_next} ELSE taken
    /\ cancel_next' = cancel_next - 1
    /\ UNCHANGED <<catalog, edited, file, downloads, cleaned, now, pc,
                   outcome, metadata, all_datasets, hospital_datasets,
                   new_files, dl, results, download_results,
                   processed_results, run0, prev, same, prev_diff,
                   writing, returned, raised, unit>>

\* the with block waits for the running workers, then the exception leaves
\* step11_process_files_parallel and run_complete_pipeline
ProcessAbort ==
    /\ pc = "process_raised"
    /\ cancel_next = Len(results) + 1
    /\ Running(tr) = {}
    /\ pc' = "idle"
    /\ outcome' = "aborted_transform"
    /\ cancel_next' = 0
    /\ UNCHANGED <<catalog, edited, file, downloads, cleaned, now, metadata,
                   all_datasets, hospital_datasets, new_files, dl, tr,
                   results, download_results, processed_results, run0,
                   prev, same, prev_diff, taken, writing, returned,
                   raised, unit>>

\* lines 193-200: step11_process_files_parallel returns, then
\* updated_metadata = self.step12_update_metadata(metadata, new_files).
\* show_sample_output in between only reads and prints, and swallows its
\* own exceptions.
UpdateMetadata ==
    /\ pc = "processing"
    /\ Len(results) = Len(tr)
    /\ processed_results' = results
    /\ metadata' = step12_update_metadata(metadata, new_files)
    /\ pc' = "updated"
    /\ UNCHANGED <<catalog, edited, file, downloads, cleaned, now, outcome,
                   all_datasets, hospital_datasets, new_files, dl, tr, results,
                   download_results, run0, prev, same, prev_diff, pool, unit>>

\* step4_save_metadata, lines 40-41: stamp last_run, open(..., "w") truncates
SaveOpen ==
    /\ pc = "updated"
    /\ metadata' = [metadata EXCEPT !.last_run = now]
    /\ file' = [exists |-> TRUE, content |-> <<>>]
    /\ pc' = "saving"
    /\ UNCHANGED <<catalog, edited, downloads, cleaned, now, outcome,
                   all_datasets, hospital_datasets, new_files, dl, tr, results,
                   download_results, processed_results, run0, prev, same, prev_diff, pool, unit>>

\* step4_save_metadata, line 42: json.dump writes the next piece; after the
\* last one the file is closed and the run returns
SaveWrite ==
    /\ pc = "saving"
    /\ LET doc == Serialize(metadata)
           n   == Len(file.content) + 1
       IN  /\ n <= Len(doc)
           /\ file' = [file EXCEPT !.content = Append(@, doc[n])]
           /\ IF n = Len(doc)
              THEN pc' = "idle" /\ outcome' = "success"
              ELSE UNCHANGED <<pc, outcome>>
    /\ UNCHANGED <<catalog, edited, downloads, cleaned, now, metadata,
                   all_datasets, hospital_datasets, new_files, dl, tr, results,
                   download_results, processed_results, run0, prev, same, prev_diff, pool, unit>>

\* the process is killed while step4_save_metadata is writing
CrashDuringSave ==
    /\ pc = "saving"
    /\ pc' = "idle"
    /\ outcome' = "crashed"
    /\ UNCHANGED <<catalog, edited, file, downloads, cleaned, now, metadata,
                   all_datasets, hospital_datasets, new_files, dl, tr, results,
                   download_results, processed_results, run0, prev, same, prev_diff, pool, unit>>

\* the positions in new_files and download_results
Items == 1..MaxBatch

Next ==
    \/ CatalogChange
    \/ LoadMetadata
    \/ LoadFails
    \/ FetchCatalog
    \/ FetchFails
    \/ FilterAndDiff
    \/ NoNewFiles
    \/ SubmitDownload
    \/ \E i \in Items : DownloadTake(i)
    \/ \E i \in Items : DownloadStart(i)
    \/ \E i \in Items : DownloadOpen(i)
    \/ \E i \in Items : DownloadClose(i)
    \/ \E i \in Items : DownloadFinish(i)
    \/ DownloadCollect
    \/ DownloadCancel
    \/ DownloadAbort
    \/ SubmitTransform
    \/ \E i \in Items : ProcessTake(i)
    \/ \E i \in Items : ProcessStart(i)
    \/ \E i \in Items : ProcessOpen(i)
    \/ \E i \in Items : ProcessClose(i)
    \/ \E i \in Items : ProcessFinish(i)
    \/ ProcessCollect
    \/ ProcessCancel
    \/ ProcessAbort
    \/ UpdateMetadata
    \/ SaveOpen
    \/ SaveWrite
    \/ CrashDuringSave

Spec == Init /\ [][Next]_vars

(***************************************************************************)
(* One run over a batch of more new relevant descriptors than the pool has *)
(* threads, or over the empty catalog.                                     *)
(***************************************************************************)
InitPool ==
    /\ catalog \in BatchCatalogs
    /\ now = MaxTime - 1
    /\ Fresh
    /\ InitRest
    /\ NoCall

NextPool ==
    \/ LoadMetadata
    \/ FetchCatalog
    \/ FetchFails
    \/ FilterAndDiff
    \/ NoNewFiles
    \/ SubmitDownload
    \/ \E i \in Items : DownloadTake(i)
    \/ \E i \in Items : DownloadStart(i)
    \/ \E i \in Items : DownloadOpen(i)
    \/ \E i \in Items : DownloadClose(i)
    \/ \E i \in Items : DownloadFinish(i)
    \/ DownloadCollect
    \/ DownloadCancel
    \/ DownloadAbort
    \/ SubmitTransform
    \/ \E i \in Items : ProcessTake(i)
    \/ \E i \in Items : ProcessStart(i)
    \/ \E i \in Items : ProcessOpen(i)
    \/ \E i \in Items : ProcessClose(i)
    \/ \E i \in Items : ProcessFinish(i)
    \/ ProcessCollect
    \/ ProcessCancel
    \/ ProcessAbort
    \/ UpdateMetadata
    \/ SaveOpen
    \/ SaveWrite
    \/ CrashDuringSave

SpecPool == InitPool /\ [][NextPool]_vars

(***************************************************************************)
(* The pure steps called on their own: step10_clean_column_name on a       *)
(* header text, step6_filter_hospital_datasets on a list of descriptors,   *)
(* step11_process_single_file on a directory holding one file.             *)
(***************************************************************************)
MaxLen == 5

MaxRows == 2

\* every sequence over the set S of length at most n
SeqsUpTo(S, n) == UNION {[1..k -> S] : k \in 0..n}

\* header texts: every text of at most MaxLen characters over a letter, the
\* underscore, a deleted character, and two replaced ones; and every text
\* over the letter and the underscore with one character replaced by one of
\* the remaining characters step10 names
CoreChars == {"A", "_", Apostrophe, " ", "("}

OtherChars == {"b", DoubleQuote, Backtick, ")", "%", "&", "-"}

HeaderInputs ==
    SeqsUpTo(CoreChars, MaxLen)
    \cup UNION {{[s EXCEPT ![i] = c] : i \in 1..Len(s), c \in OtherChars} :
                    s \in SeqsUpTo({"A", "_"}, MaxLen)}

\* texts of descriptor fields: the topic in mixed case inside a longer text,
\* the topic in upper case, the literal alone, the topic less its first
\* character, an unrelated text
FieldTexts ==
    { <<"S","t"," ","H","o","s","P","i","t","a","l","s"," ","X">>,
      <<"H","O","S","P","I","T","A","L","S">>,
      <<"H","o","s","p","i","t","a","l">>,
      <<"o","s","p","i","t","a","l","s">>,
      <<"C","a","r","e">>,
      <<>> }

\* descriptors with at most one of the four tested keys present
FilterDescriptors ==
    {[identifier |-> "x"]}
    \cup {[identifier |-> "x", title |-> t] : t \in FieldTexts}
    \cup {[identifier |-> "x", description |-> t] : t \in FieldTexts}
    \cup {[identifier |-> "x", theme |-> l] :
            l \in {<<>>} \cup {<<t>> : t \in FieldTexts}
                         \cup {<<<<"C","a","r","e">>, t>> : t \in FieldTexts}}
    \cup {[identifier |-> "x", keyword |-> l] :
            l \in {<<>>} \cup {<<t>> : t \in FieldTexts}
                         \cup {<<<<"C","a","r","e">>, t>> : t \in FieldTexts}}

\* lists of at most MaxCatalog descriptors, repetitions included
FilterInputs == SeqsUpTo(FilterDescriptors, MaxCatalog)

\* header rows and data rows as csv.reader yields them: a row may be empty,
\* and need not have as many cells as the header; a cell may hold the
\* separator or a quote
HeaderRows ==
    { <<>>,
      << <<"Z","i","p"," ","C","o","d","e">> >>,
      << <<"Z","i","p"," ","C","o","d","e">>, <<"R","a","t","e"," ","(","%",")">> >>,
      << <<"_","_">>, <<>>, <<"A","&","b">> >>,
      << <<"_","_">> >>,
      << <<"A",Comma,"b">>, <<"i","d">> >>,
      << <<"i","d">>, <<"i","d">> >> }

DataRows ==
    { <<>>,
      << <<"1">> >>,
      << <<"R","a","t","e"," ","(","%",")">>, <<"A"," ","b">> >>,
      << <<"_","X","_">>, <<>>, <<"1">> >>,
      << <<"1",Comma,"5">>, <<DoubleQuote,"A",DoubleQuote>> >> }

\* files with a header row and at most MaxRows data rows
TableInputs ==
    {<<h>> \o rows : h \in HeaderRows, rows \in SeqsUpTo(DataRows, MaxRows)}

\* input files: the tables as csv.writer writes them, the same with the end
\* of the last line missing, and a file cut inside a cell
FileInputs ==
    {csv_writerows(table) : table \in TableInputs \cup {EmptyTable}}
    \cup {SubSeq(csv_writerows(table), 1, Len(csv_writerows(table)) - 2) :
            table \in TableInputs}
    \cup {SubSeq(SampleFile, 1, n) : n \in 1..Len(SampleFile)}

\* the directories of a transform called on its own: the input file "t",
\* and a cleaned directory that is empty or already holds an output for "t"
TransformInputs ==
    {[file_path |-> "t", file_id |-> "t",
      downloads |-> WriteFile(EmptyDir, "t", text),
      cleaned   |-> c] :
        text \in FileInputs,
        c \in {EmptyDir, WriteFile(EmptyDir, "t", SampleFile \o SampleFile)}}

InitUnit ==
    /\ catalog = <<>>
    /\ now = 0
    /\ Fresh
    /\ InitRest
    /\ u_call = "none"
    /\ u_ret = <<>>
    /\ \/ \E s \in HeaderInputs :
             u_arg = [fn |-> "step10_clean_column_name", value |-> s]
       \/ \E l \in FilterInputs :
             u_arg = [fn |-> "step6_filter_hospital_datasets", value |-> l]
       \/ \E t \in TransformInputs :
             u_arg = [fn |-> "step11_process_single_file", value |-> t]

\* clean_name = self.step10_clean_column_name(column_name)
CallClean ==
    /\ u_call = "none"
    /\ u_arg.fn = "step10_clean_column_name"
    /\ u_call' = u_arg.fn
    /\ u_ret' = step10_clean_column_name(u_arg.value)
    /\ UNCHANGED <<pipeline, u_arg>>

\* hospital_datasets = self.step6_filter_hospital_datasets(all_datasets)
CallFilter ==
    /\ u_call = "none"
    /\ u_arg.fn = "step6_filter_hospital_datasets"
    /\ u_call' = u_arg.fn
    /\ u_ret' = step6_filter_hospital_datasets(u_arg.value)
    /\ UNCHANGED <<pipeline, u_arg>>

\* self.step11_process_single_file(file_path, file_id) returns: u_ret holds
\* both directories after the call
CallTransform ==
    /\ u_call = "none"
    /\ u_arg.fn = "step11_process_single_file"
    /\ ~step11_raises(u_arg.value.downloads, u_arg.value.file_path)
    /\ u_call' = u_arg.fn
    /\ u_ret' = [raised    |-> FALSE,
                 downloads |-> u_arg.value.downloads,
                 cleaned   |-> step11_process_single_file(
                                  u_arg.value.downloads, u_arg.value.cleaned,
                                  u_arg.value.file_path, u_arg.value.file_id)]
    /\ UNCHANGED <<pipeline, u_arg>>

\* self.step11_process_single_file(file_path, file_id) raises at line 132,
\* before the output file is opened
CallTransformRaises ==
    /\ u_call = "none"
    /\ u_arg.fn = "step11_process_single_file"
    /\ step11_raises(u_arg.value.downloads, u_arg.value.file_path)
    /\ u_call' = u_arg.fn
    /\ u_ret' = [raised    |-> TRUE,
                 downloads |-> u_arg.value.downloads,
                 cleaned   |-> u_arg.value.cleaned]
    /\ UNCHANGED <<pipeline, u_arg>>

NextUnit ==
    \/ CallClean
    \/ CallFilter
    \/ CallTransform
    \/ CallTransformRaises

SpecUnit == InitUnit /\ [][NextUnit]_vars

(***************************************************************************)
(* Properties                                                              *)
(***************************************************************************)
RunEnded == pc = "idle" /\ outcome # "none"

\* the change test stated on the mapping: the identifier has no entry, or an
\* entry with another marker
Changed(d, files) ==
    \/ \A i \in 1..Len(files) : files[i][1] # d["identifier"]
    \/ \E i \in 1..Len(files) :
          files[i][1] = d["identifier"] /\ files[i][2] # d["modified"]

\* identifiers whose entry in the mapping g is not the one they have in f
Rewritten(f, g) == {g[i][1] : i \in {j \in 1..Len(g) : g[j] \notin Range(f)}}

\* C1 (as claimed): whatever the catalog, a run that follows a run which
\* saved its state, against the same catalog, finds nothing new or updated
\* and invokes no download.
C1_IdempotentForEveryCatalog ==
    (prev = "success" /\ same)
        => /\ new_files = <<>>
           /\ dl = <<>>
           /\ pc \in {"fetched", "diffed", "idle"}

\* C1 (amended): when the identifiers of the catalog are pairwise distinct,
\* a run that follows a run which saved its state, against the same
\* catalog, finds nothing new or updated and invokes no download, whatever
\* state the earlier run had started from.
C1_IdempotentWhenDistinct ==
    (prev = "success" /\ same /\ DistinctIds(all_datasets))
        => /\ new_files = <<>>
           /\ dl = <<>>
           /\ pc \in {"fetched", "diffed", "idle"}

\* the second run over a catalog of two relevant descriptors with distinct
\* identifiers ends with nothing to do; the run before it had started from
\* a saved state that already held one of them with its marker
C1_Witness ==
    /\ RunEnded
    /\ outcome = "noop"
    /\ prev = "success"
    /\ same
    /\ DistinctIds(all_datasets)
    /\ Len(hospital_datasets) >= 2
    /\ prev_diff # {}
    /\ prev_diff # IdsOf(hospital_datasets)

\* C2: step7 returns, in input order, exactly the candidates whose identifier
\* is absent from the state or stored with a different marker.
C2_ChangeDetection ==
    pc = "diffed" =>
        new_files = SelectSeq(hospital_datasets,
                              LAMBDA d : Changed(d, metadata.files))

\* a candidate whose marker went back from m2 to m1 is included, next to a
\* candidate with an identical marker that is excluded
C2_Witness ==
    /\ pc = "diffed"
    /\ \E d \in Range(new_files) :
          /\ d["modified"] = "m1"
          /\ <<d["identifier"], "m2">> \in Range(metadata.files)
    /\ \E d \in Range(hospital_datasets) :
          <<d["identifier"], d["modified"]>> \in Range(metadata.files)

\* C3 (as claimed): when a worker fails in a phase, every other item of the
\* phase was still invoked and ran to completion; none is cancelled.
C3_NoSiblingCancelled ==
    /\ (RunEnded /\ outcome = "aborted_download")
          => \A i \in 1..Len(dl) : dl[i] \in {"DONE", "ERROR"}
    /\ (RunEnded /\ outcome = "aborted_transform")
          => \A i \in 1..Len(tr) : tr[i] \in {"DONE", "ERROR"}

\* C4 (as claimed): a run in which a worker raised for one item still ends
\* with the state file written.
C4_ItemErrorNotFatal ==
    (RunEnded /\ ("ERROR" \in Range(dl) \/ "ERROR" \in Range(tr)))
        => /\ outcome = "success"
           /\ file.exists
           /\ file.content = Serialize(metadata)

\* C5 (as claimed): after a crash during step4_save_metadata the state file
\* is the complete previous one or the complete new one.
C5_AtomicSave ==
    (RunEnded /\ outcome = "crashed")
        => \/ file = run0.file
           \/ file.exists /\ file.content = Serialize(metadata)

\* C6: in both phases at most MAX_WORKERS workers are active at once.
C6_BoundedConcurrency ==
    /\ Cardinality(Running(dl)) <= MAX_WORKERS
    /\ Cardinality(Running(tr)) <= MAX_WORKERS

\* the pool is full in the transform phase while an item is still queued
C6_Witness ==
    /\ pc = "processing"
    /\ Cardinality(Running(tr)) = MAX_WORKERS
    /\ \E i \in 1..Len(tr) : tr[i] = "PENDING"
    /\ Len(dl) > MAX_WORKERS

\* C7: in a run that succeeds, the identifiers downloaded, transformed and
\* rewritten in the persisted state are exactly those of the relevant
\* descriptors that are new or changed against the loaded state; no other
\* identifier has its download, its cleaned file or its entry touched.
C7_Selection ==
    (RunEnded /\ outcome = "success") =>
        LET E == {d["identifier"] : d \in
                    {x \in Range(all_datasets) :
                        is_hospital_related(x) /\ Changed(x, run0.loaded.files)}}
            saved == Parse(file.content).files
        IN  /\ {new_files[i]["identifier"] : i \in Invoked(dl)} = E
            /\ {download_results[i].file_id : i \in Invoked(tr)} = E
            /\ Rewritten(run0.loaded.files, saved) = E
            /\ (Range(run0.loaded.files) \ Range(saved))
                  \subseteq {p \in Range(run0.loaded.files) : p[1] \in E}
            /\ \A id \in (DOMAIN downloads) \ E :
                  id \in DOMAIN run0.downloads /\ downloads[id] = run0.downloads[id]
            /\ \A id \in (DOMAIN cleaned) \ E :
                  id \in DOMAIN run0.cleaned /\ cleaned[id] = run0.cleaned[id]
            /\ E \subseteq DOMAIN downloads
            /\ E \subseteq DOMAIN cleaned

\* a successful run over a catalog that also holds a descriptor outside the
\* selection
C7_Witness ==
    /\ RunEnded
    /\ outcome = "success"
    /\ new_files # <<>>
    /\ \E d \in Range(all_datasets) : d \notin Range(new_files)

\* C8: the run marks every identifier of the diff set as synced, also when
\* its download or transform failed in that run.
C8_MarksEvenFailed ==
    (RunEnded /\ outcome \in {"success", "aborted_download", "aborted_transform"})
        => \A d \in Range(new_files) :
              <<d["identifier"], d["modified"]>> \in Range(metadata.files)

\* C9: a run whose diff is empty returns with the state file, both
\* directories and the in-memory state as they were, and invokes no worker.
C9_EmptyDiffNoOp ==
    (RunEnded /\ outcome = "noop")
        => /\ new_files = <<>>
           /\ file = run0.file
           /\ downloads = run0.downloads
           /\ cleaned = run0.cleaned
           /\ metadata = run0.loaded
           /\ dl = <<>>
           /\ tr = <<>>

\* an empty diff over relevant descriptors that are all in the saved state
C9_Witness ==
    /\ RunEnded
    /\ outcome = "noop"
    /\ hospital_datasets # <<>>
    /\ file.exists
    /\ IsComplete(file.content)

\* C10: a run that fails to load the state or to fetch the catalog ends with
\* the state file and both directories as they were, and invokes no worker.
C10_FatalLeavesState ==
    (RunEnded /\ outcome \in {"aborted_load", "aborted_fetch"})
        => /\ file = run0.file
           /\ downloads = run0.downloads
           /\ cleaned = run0.cleaned
           /\ dl = <<>>
           /\ tr = <<>>

\* the load met a state file that a crashed save left incomplete
C10_Witness ==
    /\ RunEnded
    /\ outcome = "aborted_load"
    /\ file.exists
    /\ ~IsComplete(file.content)

\* the entries of the 'files' mapping in the state file as the run found it
\* (none when there was no file)
PersistedBefore == Parse(run0.file.content).files

\* C11: every identifier that was in the persisted 'files' mapping before a
\* run is in it after the run's save, with its old marker unless the
\* identifier was in the run's diff set; nothing else enters the mapping.
C11_NoKeyLost ==
    (RunEnded /\ outcome = "success") =>
        LET after == Parse(file.content).files
        IN  /\ IsComplete(file.content)
            /\ \A p \in Range(PersistedBefore) :
                  /\ HasKey(after, p[1])
                  /\ p[1] \notin IdsOf(new_files) => p \in Range(after)
            /\ \A p \in Range(after) :
                  p \in Range(PersistedBefore) \/ p[1] \in IdsOf(new_files)

\* a run saved a new marker for one identifier while the state it loaded
\* held a second identifier that the catalog still names with the same
\* marker and a third that the catalog no longer names: both are kept
C11_Witness ==
    /\ RunEnded
    /\ outcome = "success"
    /\ LET after == Range(Parse(file.content).files)
       IN  /\ \E p \in Range(PersistedBefore) :
                 p[1] \in IdsOf(new_files) /\ p \notin after
           /\ \E p \in Range(PersistedBefore) :
                 /\ p[1] \in IdsOf(all_datasets)
                 /\ p[1] \notin IdsOf(new_files)
                 /\ p \in after
           /\ \E p \in Range(PersistedBefore) :
                 p[1] \notin IdsOf(all_datasets) /\ p \in after

(***************************************************************************)
(* The header normalisation, stated step by step on whole texts            *)
(***************************************************************************)
DeletedChars == {Apostrophe, DoubleQuote, Backtick}

ReplacedChars == {"(", ")", "%", "&", "-", " "}

RefLowercase(s) == [i \in 1..Len(s) |-> LowerChar(s[i])]

RefDelete(s) == SelectSeq(s, LAMBDA c : c \notin DeletedChars)

RefReplace(s) == [i \in 1..Len(s) |-> IF s[i] \in ReplacedChars THEN "_" ELSE s[i]]

\* of every run of underscores only the first one is kept
RefCollapse(s) ==
    LET kept[n \in 0..Len(s)] ==
            IF n = 0 THEN <<>>
            ELSE IF s[n] = "_" /\ n > 1 /\ s[n - 1] = "_"
                 THEN kept[n - 1]
                 ELSE Append(kept[n - 1], s[n])
    IN  kept[Len(s)]

RefStrip(s) ==
    LET lo == IF s # <<>> /\ s[1] = "_" THEN 2 ELSE 1
        hi == IF s # <<>> /\ s[Len(s)] = "_" THEN Len(s) - 1 ELSE Len(s)
    IN  SubSeq(s, lo, hi)

RefNormalize(s) == RefStrip(RefCollapse(RefReplace(RefDelete(RefLowercase(s)))))

CleanCalled == u_call = "step10_clean_column_name"

\* C12: for every header text, step10_clean_column_name returns what the
\* five steps give (lowercase, delete the three quote characters, replace
\* the six characters by underscores, collapse runs of underscores, strip
\* one leading and one trailing underscore); for a text made only of
\* deleted or replaced characters or underscores it returns the empty text.
C12_EqualsReference ==
    CleanCalled =>
        /\ u_ret = RefNormalize(u_arg.value)
        /\ (Range(u_arg.value) \subseteq DeletedChars \cup ReplacedChars \cup {"_"})
              => u_ret = <<>>

\* the call on '___'
C12_Witness ==
    /\ CleanCalled
    /\ u_arg.value = <<"_", "_", "_">>
    /\ u_ret = <<>>

\* C13: the text step10_clean_column_name returns holds no two consecutive
\* underscores.
C13_NoDoubleUnderscore ==
    CleanCalled => ~Contains(u_ret, <<"_", "_">>)

\* the input holds two underscores that only the deletion of the quote
\* between them makes adjacent, inside a text that keeps them from the ends
C13_Witness ==
    /\ CleanCalled
    /\ u_arg.value = <<"A", "_", Apostrophe, "_", "A">>
    /\ u_ret = <<"a", "_", "a">>

\* C19: the text step10_clean_column_name returns neither begins nor ends
\* with an underscore, and step10_clean_column_name maps it to itself.
C19_TrimmedAndIdempotent ==
    CleanCalled =>
        /\ u_ret # <<>> => (u_ret[1] # "_" /\ u_ret[Len(u_ret)] # "_")
        /\ step10_clean_column_name(u_ret) = u_ret

\* the input begins and ends with more than one underscore
C19_Witness ==
    /\ CleanCalled
    /\ u_arg.value = <<"_", "_", "A", "_", "_">>
    /\ u_ret = <<"a">>

(***************************************************************************)
(* The relevance filter, stated on the descriptor                          *)
(***************************************************************************)
\* sub occurs in text when the case of letters is ignored
OccursIgnoringCase(sub, text) ==
    \E off \in 0..(Len(text) - Len(sub)) :
        \A k \in 1..Len(sub) : LowerChar(text[off + k]) = LowerChar(sub[k])

\* sub occurs in the lowercased text
OccursInLowercased(sub, text) ==
    \E off \in 0..(Len(text) - Len(sub)) :
        \A k \in 1..Len(sub) : LowerChar(text[off + k]) = sub[k]

RefRelevant(d) ==
    \/ \E key \in {"title", "description"} \cap DOMAIN d :
          \/ OccursIgnoringCase(THEME_FILTER, d[key])
          \/ OccursInLowercased(HospitalLiteral, d[key])
    \/ \E key \in {"theme", "keyword"} \cap DOMAIN d :
          \E e \in Range(d[key]) : OccursIgnoringCase(THEME_FILTER, e)

FilterCalled == u_call = "step6_filter_hospital_datasets"

\* C14: step6_filter_hospital_datasets returns the input descriptors, in
\* input order and unaltered, for which the topic occurs, ignoring case, in
\* the title, the description, an element of theme or an element of
\* keyword, or the literal 'hospital' occurs in the lowercased title or
\* description; the literal in a theme or keyword does not count.
C14_RelevanceFilter ==
    FilterCalled => u_ret = SelectSeq(u_arg.value, RefRelevant)

\* the list holds a descriptor kept for the upper-case topic in a keyword,
\* after one dropped whose theme holds the literal only
C14_Witness ==
    /\ FilterCalled
    /\ Len(u_arg.value) = 2
    /\ u_arg.value[1] = [identifier |-> "x",
                         theme |-> << <<"H","o","s","p","i","t","a","l">> >>]
    /\ u_arg.value[2] = [identifier |-> "x",
                         keyword |-> << <<"C","a","r","e">>,
                                        <<"H","O","S","P","I","T","A","L","S">> >>]
    /\ u_ret = <<u_arg.value[2]>>

TransformReturned == u_call = "step11_process_single_file" /\ ~u_ret.raised

\* C15: for an input file with a header row, step11_process_single_file
\* writes a file whose first row is the input header with
\* step10_clean_column_name applied to each cell, same number of cells, and
\* whose other rows are the input data rows, same count, order and cells;
\* the input file is left as it was and no other file is written.
C15_TransformFrame ==
    TransformReturned =>
        LET input  == csv_reader(u_arg.value.downloads[u_arg.value.file_path])
            output == csv_reader(u_ret.cleaned[u_arg.value.file_id])
        IN  /\ Len(output) = Len(input)
            /\ Len(output[1]) = Len(input[1])
            /\ \A i \in 1..Len(input[1]) :
                  output[1][i] = step10_clean_column_name(input[1][i])
            /\ \A r \in 2..Len(input) : output[r] = input[r]
            /\ u_ret.downloads = u_arg.value.downloads
            /\ DOMAIN u_ret.cleaned = {u_arg.value.file_id}

\* a header that normalisation changes, over two data rows of which one
\* holds a cell that normalisation would change
C15_Witness ==
    /\ TransformReturned
    /\ LET input  == csv_reader(u_arg.value.downloads[u_arg.value.file_path])
           output == csv_reader(u_ret.cleaned[u_arg.value.file_id])
       IN  /\ Len(input) = 3
           /\ input[1] = << <<"Z","i","p"," ","C","o","d","e">>,
                            <<"R","a","t","e"," ","(","%",")">> >>
           /\ output[1] = << <<"z","i","p","_","c","o","d","e">>,
                             <<"r","a","t","e">> >>
           /\ input[2] = << <<"R","a","t","e"," ","(","%",")">>, <<"A"," ","b">> >>
           /\ input[3] = <<>>

\* C16: a transform worker is invoked only when every download worker of
\* the run has finished, and none is invoked while a download worker runs.
C16_PhaseOrdering ==
    /\ Invoked(tr) # {} =>
          /\ Len(dl) = Len(new_files)
          /\ \A j \in 1..Len(dl) : dl[j] = "DONE"
    /\ Running(dl) # {} => (tr = <<>> /\ Invoked(tr) = {})

\* a transform worker runs after a download phase of more items than the
\* pool has threads
C16_Witness ==
    /\ pc = "processing"
    /\ Running(tr) # {}
    /\ Len(dl) > MAX_WORKERS
    /\ \A j \in 1..Len(dl) : dl[j] = "DONE"

WorkerFailed == outcome \in {"aborted_download", "aborted_transform"}

\* C18: an entry of the persisted 'files' mapping is one the run found there
\* or one of an identifier whose download and transform both completed in
\* the run; a run in which a worker failed leaves the state file as it was;
\* and the run that follows it against the same catalog has every
\* identifier of the failed run's diff set in its diff set again.
C18_RecordedOnlyWhenDone ==
    /\ \A p \in Range(Parse(file.content).files) :
          \/ p \in Range(PersistedBefore)
          \/ \E i \in 1..Len(new_files) :
                /\ new_files[i]["identifier"] = p[1]
                /\ i <= Len(dl) /\ dl[i] = "DONE"
                /\ i <= Len(tr) /\ tr[i] = "DONE"
    /\ (RunEnded /\ WorkerFailed) => file = run0.file
    /\ (prev \in {"aborted_download", "aborted_transform"} /\ same /\ pc # "fetched")
          => (prev_diff # {} /\ prev_diff \subseteq IdsOf(new_files))

\* the run after a run whose transform failed, against the same catalog,
\* which ends in a failure again: both identifiers are in its diff set
C18_Witness ==
    /\ RunEnded
    /\ WorkerFailed
    /\ prev = "aborted_transform"
    /\ same
    /\ Cardinality(prev_diff) = 2
    /\ prev_diff = IdsOf(new_files)

\* no two workers that are active at the same time are on the same identifier
DisjointWorkers ==
    /\ \A i, j \in Running(dl) :
          new_files[i]["identifier"] = new_files[j]["identifier"] => i = j
    /\ \A i, j \in Running(tr) :
          download_results[i].file_id = download_results[j].file_id => i = j

\* C17 (as claimed): whatever catalog the run receives, no two concurrently
\* active workers of a phase operate on the same identifier.
C17_DisjointForEveryCatalog == DisjointWorkers

\* C17 (amended): when the identifiers of the fetched catalog are pairwise
\* distinct, the diff set and the download results name each identifier
\* once, and no two concurrently active workers of a phase operate on the
\* same identifier.
C17_DisjointWhenDistinct ==
    DistinctIds(all_datasets) =>
        /\ DistinctIds(new_files)
        /\ \A i, j \in 1..Len(download_results) :
              download_results[i].file_id = download_results[j].file_id => i = j
        /\ DisjointWorkers

\* two transform workers are active at once in a run over a catalog of
\* distinct identifiers
C17_Witness ==
    /\ pc = "processing"
    /\ DistinctIds(all_datasets)
    /\ Cardinality(Running(tr)) >= 2
    /\ Cardinality({download_results[i].file_id : i \in Running(tr)}) >= 2

====
